---- MODULE Spec2Model ----
(***************************************************************************)
(* A model of src/transformer_v2.py: the tensor shapes every operation of  *)
(* the forward pass produces (or the shape error it raises and where), the *)
(* contents of the causal mask, the rows of the positional-encoding table  *)
(* that are added to each position, and the values of the final mapping    *)
(* block.                                                                  *)
(*                                                                         *)
(* A tensor is a record [ok, shape, at, layer]: ok = FALSE is a raised     *)
(* shape error, `at` the call path of the operation that raised it         *)
(* (outermost first) and `layer` the index of the stacked layer it passed  *)
(* through (-1: none).                                                     *)
(***************************************************************************)
EXTENDS Integers, Sequences, FiniteSets, TLC

VARIABLES
    maskArgs,   \* the arguments <<x, y>> of a create_mask call
    maskOut,    \* the matrix the call returned
    scoresIn,   \* raw attention scores handed to masked_fill
    scoresOut,  \* the scores after masked_fill(mask == 0, -1e9)
    attnIn,     \* the arguments of a scaled_dot_product_attention call
    attnOut,    \* the tensor the call returned
    peMod,      \* a constructed PositionalEncoding: window and d_model
    peIn,       \* the input of its last forward call
    peOut,      \* the result of its last forward call
    pc,         \* "new" before Ml4fTransformer is constructed, then "built"
    cfg,        \* the constructor arguments kept by the model
    params,     \* the parameters read by the final norm and the map block
    prev,       \* the forward call before the last one
    last        \* the last forward call: its inputs, dropout draws, result

vars == <<maskArgs, maskOut, scoresIn, scoresOut, attnIn, attnOut,
          peMod, peIn, peOut, pc, cfg, params, prev, last>>

maskVars == <<maskArgs, maskOut, scoresIn, scoresOut>>
attnVars == <<attnIn, attnOut>>
peVars == <<peMod, peIn, peOut>>
modelVars == <<pc, cfg, params, prev, last>>

\* ------------------------------------------------------------- bounds
MaxMaskDim == 5
MaxSeq == 3
MaxHeads == 2
MaxHeadDim == 2
MaxBatch == 2
MaxPeWindow == 4
MaxPeDim == 3
MaxModelDim == 2
MaxLayers == 2
MaxWindow == 3
MaxPredValues == 2

\* ------------------------------------------------------ shape algebra
None == <<>>

Ok(s) == [ok |-> TRUE, shape |-> s, at |-> <<>>, layer |-> -1]

Err(op) == [ok |-> FALSE, shape |-> <<>>, at |-> <<op>>, layer |-> -1]

\* An error raised inside `site` carries the site in its path.
In(site, r) == IF r.ok THEN r ELSE [r EXCEPT !.at = <<site>> \o @]

\* The same for a call whose arguments may hold an error raised before it:
\* `entered` says that they do not, and the call was made.
InFrom(site, entered, r) == IF entered THEN In(site, r) ELSE r

InLayer(i, r) == IF r.ok \/ r.layer # -1 THEN r ELSE [r EXCEPT !.layer = i]

RECURSIVE Numel(_)
Numel(s) == IF s = <<>> THEN 1 ELSE Head(s) * Numel(Tail(s))

Max(a, b) == IF a >= b THEN a ELSE b

Min(a, b) == IF a <= b THEN a ELSE b

\* torch broadcasting of two shapes, aligned at the trailing dimension.
PadLeft(s, n) == [i \in 1..n |-> IF i <= n - Len(s) THEN 1 ELSE s[i - (n - Len(s))]]

Broadcastable(s, t) ==
    LET n == Max(Len(s), Len(t))
        a == PadLeft(s, n)
        b == PadLeft(t, n)
    IN \A i \in 1..n : a[i] = b[i] \/ a[i] = 1 \/ b[i] = 1

BroadcastShape(s, t) ==
    LET n == Max(Len(s), Len(t))
        a == PadLeft(s, n)
        b == PadLeft(t, n)
    IN [i \in 1..n |-> IF a[i] = 1 THEN b[i] ELSE a[i]]

\* x + y
Add(x, y) ==
    IF ~x.ok THEN x
    ELSE IF ~y.ok THEN y
    ELSE IF Broadcastable(x.shape, y.shape)
         THEN Ok(BroadcastShape(x.shape, y.shape))
         ELSE Err("add")

\* t.transpose(1, 2): torch dimensions 1 and 2 are positions 2 and 3.
Transpose12(t) ==
    IF ~t.ok THEN t
    ELSE IF Len(t.shape) < 3 THEN Err("transpose")
    ELSE Ok([i \in 1..Len(t.shape) |->
                IF i = 2 THEN t.shape[3] ELSE IF i = 3 THEN t.shape[2] ELSE t.shape[i]])

\* t.view(*target); at most one entry of target is -1 and is inferred.
View(t, target) ==
    IF ~t.ok THEN t
    ELSE LET n == Numel(t.shape)
             known == Numel([i \in 1..Len(target) |->
                                IF target[i] = -1 THEN 1 ELSE target[i]])
             infer == \E i \in 1..Len(target) : target[i] = -1
         IN IF infer
            THEN IF known > 0 /\ n % known = 0
                 THEN Ok([i \in 1..Len(target) |->
                             IF target[i] = -1 THEN n \div known ELSE target[i]])
                 ELSE Err("view")
            ELSE IF known = n THEN Ok(target) ELSE Err("view")

\* torch.matmul of two 3-d tensors: batched matrix product.
Matmul(a, b) ==
    IF ~a.ok THEN a
    ELSE IF ~b.ok THEN b
    ELSE IF /\ Len(a.shape) = 3 /\ Len(b.shape) = 3
            /\ a.shape[3] = b.shape[2]
            /\ (a.shape[1] = b.shape[1] \/ a.shape[1] = 1 \/ b.shape[1] = 1)
         THEN Ok(<<Max(a.shape[1], b.shape[1]), a.shape[2], b.shape[3]>>)
         ELSE Err("matmul")

\* scores.masked_fill(mask == 0, -1e9): out of place, so the tensor and the
\* mask are broadcast against each other.
MaskedFill(t, maskShape) ==
    IF ~t.ok THEN t
    ELSE IF Broadcastable(t.shape, maskShape)
         THEN Ok(BroadcastShape(t.shape, maskShape))
         ELSE Err("masked_fill")

\* F.softmax(scores, dim = 2) normalises along a dimension and keeps the shape.
Softmax(t, dim) ==
    IF ~t.ok THEN t
    ELSE IF dim + 1 <= Len(t.shape) THEN Ok(t.shape) ELSE Err("softmax")

\* nn.Linear(inF, outF)
Linear(t, inF, outF) ==
    IF ~t.ok THEN t
    ELSE IF Len(t.shape) >= 1 /\ t.shape[Len(t.shape)] = inF
         THEN Ok([t.shape EXCEPT ![Len(t.shape)] = outF])
         ELSE Err("linear")

\* nn.LayerNorm(d)
LayerNorm(t, d) ==
    IF ~t.ok THEN t
    ELSE IF Len(t.shape) >= 1 /\ t.shape[Len(t.shape)] = d
         THEN Ok(t.shape)
         ELSE Err("layer_norm")

\* ---------------------------------------------------------- create_mask
\* A matrix is [rows, cols, at]: `at` is indexed from 0 like the tensor.
MaskShape(m) == <<1, m.rows, m.cols>>

\* np.ones((1, r, c))
Ones(r, c) ==
    [rows |-> r, cols |-> c, at |-> [i \in 0..(r - 1) |-> [j \in 0..(c - 1) |-> 1]]]

\* np.triu(m, k): zero below the k-th diagonal.
Triu(m, k) ==
    [rows |-> m.rows, cols |-> m.cols,
     at |-> [i \in 0..(m.rows - 1) |-> [j \in 0..(m.cols - 1) |->
                IF j - i >= k THEN m.at[i][j] ELSE 0]]]

\* peak[:, :-1, 1:]
SliceRowsCols(m) ==
    [rows |-> m.rows - 1, cols |-> m.cols - 1,
     at |-> [i \in 0..(m.rows - 2) |-> [j \in 0..(m.cols - 2) |-> m.at[i][j + 1]]]]

\* nopeak.transpose(1, 2)
TransposeMatrix(m) ==
    [rows |-> m.cols, cols |-> m.rows,
     at |-> [i \in 0..(m.cols - 1) |-> [j \in 0..(m.rows - 1) |-> m.at[j][i]]]]

create_mask_NoTranspose(x, y) ==
    SliceRowsCols(Triu(Ones(x + 1, y + 1), 1))

create_mask_Diagonal0(x, y) ==
    TransposeMatrix(SliceRowsCols(Triu(Ones(x + 1, y + 1), 0)))

create_mask_Strict(x, y) ==
    TransposeMatrix(SliceRowsCols(Triu(Ones(x + 1, y + 1), 2)))

create_mask(x, y) ==
    LET nopeak_mask == Triu(Ones(x + 1, y + 1), 1)
        nopeak == SliceRowsCols(nopeak_mask)
        peak_mask == TransposeMatrix(nopeak)
    IN peak_mask

\* The fill value of masked_fill.
NegFill == -1000000000

\* scores.masked_fill(mask == 0, -1e9) on the values of one [s_q, s_k] slice
\* whose shape equals the mask's.
MaskedFillValues(scores, m) ==
    [rows |-> scores.rows, cols |-> scores.cols,
     at |-> [i \in 0..(scores.rows - 1) |-> [j \in 0..(scores.cols - 1) |->
                IF m.at[i][j] = 0 THEN NegFill ELSE scores.at[i][j]]]]

\* ------------------------------------------ scaled_dot_product_attention
\* The first raised error of a call's arguments, evaluated left to right.
FirstError(ts) ==
    LET bad == {i \in 1..Len(ts) : ~ts[i].ok}
    IN ts[CHOOSE i \in bad : \A j \in bad : i <= j]

AllOk(ts) == \A i \in 1..Len(ts) : ts[i].ok

scaled_dot_product_attention_SwappedScores(k, q, v, mask) ==
    LET b == k.shape[1]
        h == k.shape[3]
        d == k.shape[4]
        k1 == View(Transpose12(k), <<b * h, -1, d>>)
        q1 == View(Transpose12(q), <<b * h, -1, d>>)
        v1 == View(Transpose12(v), <<b * h, -1, d>>)
        scores0 == Matmul(k1, Transpose12(q1))
        scores1 == IF mask # None THEN MaskedFill(scores0, mask) ELSE scores0
        scores2 == Softmax(scores1, 2)
        scores3 == View(Matmul(scores2, v1), <<b, h, -1, d>>)
    IN View(Transpose12(scores3), <<b, -1, h * d>>)

scaled_dot_product_attention(k, q, v, mask) ==
    LET b == k.shape[1]
        h == k.shape[3]
        d == k.shape[4]
        k1 == View(Transpose12(k), <<b * h, -1, d>>)
        q1 == View(Transpose12(q), <<b * h, -1, d>>)
        v1 == View(Transpose12(v), <<b * h, -1, d>>)
        scores0 == Matmul(q1, Transpose12(k1))
        scores1 == IF mask # None THEN MaskedFill(scores0, mask) ELSE scores0
        scores2 == Softmax(scores1, 2)
        scores3 == View(Matmul(scores2, v1), <<b, h, -1, d>>)
    IN View(Transpose12(scores3), <<b, -1, h * d>>)

\* MultiHeadAttention.forward(q, k, v) of an instance with `heads`, `d_model`
\* and the mask fixed at construction.
MultiHeadAttention(q, k, v, heads, d_model, mask) ==
    LET b == q.shape[1]
        k1 == View(Linear(k, d_model, heads * d_model), <<b, -1, heads, d_model>>)
        q1 == View(Linear(q, d_model, heads * d_model), <<b, -1, heads, d_model>>)
        v1 == View(Linear(v, d_model, heads * d_model), <<b, -1, heads, d_model>>)
    IN IF ~AllOk(<<q, k, v>>) THEN FirstError(<<q, k, v>>)
       ELSE IF ~AllOk(<<k1, q1, v1>>) THEN FirstError(<<k1, q1, v1>>)
       ELSE Linear(In("scaled_dot_product_attention",
                      scaled_dot_product_attention(k1, q1, v1, mask)),
                   heads * d_model, d_model)

\* FeedForward.forward: Linear, ReLU, Dropout, Linear.
FeedForward(x, d_model) ==
    Linear(Linear(x, d_model, 10 * d_model), 10 * d_model, d_model)

\* ------------------------------------------------- PositionalEncoding
\* self.pe[:, :seq_len] of a table of shape [1, window, d_model]: a slice
\* past the end of the table stops at the end.
PeSlice(window, d_model, seq_len) == Ok(<<1, Min(window, seq_len), d_model>>)

\* PositionalEncoding.forward(x)
PositionalEncoding(x, window, d_model) ==
    IF ~x.ok THEN x
    ELSE IF Len(x.shape) < 2 THEN Err("size")
    ELSE Add(x, PeSlice(window, d_model, x.shape[2]))

\* The row of the table added to position l of a sequence of seq_len
\* positions: the slice has Min(window, seq_len) rows, and a slice of one
\* row is broadcast over every position.
PeRowAt(window, seq_len, l) == IF Min(window, seq_len) = 1 THEN 0 ELSE l

\* ------------------------------------------------------ encoder, decoder
EncoderLayer(x, heads, d_model) ==
    LET x2 == LayerNorm(x, d_model)
        x1 == Add(x, InFrom("attn", x2.ok,
                            MultiHeadAttention(x2, x2, x2, heads, d_model, None)))
        x3 == LayerNorm(x1, d_model)
    IN Add(x1, InFrom("ff", x3.ok, FeedForward(x3, d_model)))

RECURSIVE EncoderLayers(_, _, _, _, _)
EncoderLayers(x, i, N, heads, d_model) ==
    IF i >= N \/ ~x.ok THEN x
    ELSE EncoderLayers(InLayer(i, EncoderLayer(x, heads, d_model)), i + 1, N, heads, d_model)

Encoder(x, N, pe_window, heads, d_model) ==
    LET x1 == InFrom("pe", x.ok, PositionalEncoding(x, pe_window, d_model))
    IN LayerNorm(EncoderLayers(x1, 0, N, heads, d_model), d_model)

DecoderLayer(x, enc_out, heads, d_model, first_mask) ==
    LET x2 == LayerNorm(x, d_model)
        x1 == Add(x, InFrom("attn_1", x2.ok,
                            MultiHeadAttention(x2, x2, x2, heads, d_model, first_mask)))
        x3 == LayerNorm(x1, d_model)
        x4 == Add(x1, InFrom("attn_2", x3.ok,
                             MultiHeadAttention(x3, enc_out, enc_out, heads, d_model, None)))
        x5 == LayerNorm(x4, d_model)
    IN Add(x4, InFrom("ff", x5.ok, FeedForward(x5, d_model)))

RECURSIVE DecoderLayers(_, _, _, _, _, _, _)
DecoderLayers(x, enc_out, i, N, heads, d_model, first_mask) ==
    IF i >= N \/ ~x.ok THEN x
    ELSE DecoderLayers(InLayer(i, DecoderLayer(x, enc_out, heads, d_model, first_mask)),
                       enc_out, i + 1, N, heads, d_model, first_mask)

\* enc_out is a tensor: forward is not called with an error.
Decoder(x, enc_out, N, pe_window, heads, d_model, first_mask) ==
    LET x1 == InFrom("pe", x.ok, PositionalEncoding(x, pe_window, d_model))
    IN LayerNorm(DecoderLayers(x1, enc_out, 0, N, heads, d_model, first_mask), d_model)

\* -------------------------------------------------- Ml4fTransformer
\* Ml4fTransformer.forward(x, y) of a model constructed with c: the shape
\* of the result, or the shape error raised on the way.
Ml4fTransformer(x, y, c) ==
    LET b == x.shape[1]
        enc_output == In("dynamicencode",
                         Encoder(x, c.N, c.pe_window, c.heads, c.d_model_e))
        enc_flat == View(enc_output, <<b, -1>>)
        enc_map == InFrom("learn", enc_flat.ok,
                          Linear(enc_flat, c.context_window * c.d_model_e,
                                 c.pred_window * c.d_model_d))
        enc_map3 == View(enc_map, <<-1, c.pred_window, c.d_model_d>>)
        dec_output == IF enc_map3.ok
                      THEN In("decoder",
                              Decoder(y, enc_map3, c.N, c.pe_window, c.heads, c.d_model_d,
                                      MaskShape(c.first_mask)))
                      ELSE enc_map3
        dec_flat == View(dec_output, <<b, c.pred_window>>)
    IN InFrom("map", dec_flat.ok, Linear(dec_flat, c.pred_window, c.pred_window))

\* ------------------------------------------- values of the final blocks
\* A value is a fraction [num, den] of integers, den > 0.
Frac(n, d) == [num |-> n, den |-> d]

LayerNormOneFeature_NotCentred(u, weight, bias) == u * weight + bias

\* Decoder.norm = nn.LayerNorm(d_model_d) on a position of one feature
\* (dec_output.view(b, pred_window) needs d_model_d = 1): the mean is the
\* feature itself, the centred value and the variance are 0, and the result
\* is 0 * weight + bias.
LayerNormOneFeature(u, weight, bias) ==
    LET mean == u
        centred == u - mean
    IN centred * weight + bias

RECURSIVE Dot(_, _, _)
Dot(w, v, n) == IF n = 0 THEN 0 ELSE w[n] * v[n] + Dot(w, v, n - 1)

\* nn.Linear(pred_window, pred_window) of the map block on one batch row.
MapLinear(v, p, P) == [i \in 1..P |-> Dot(p.W[i], v, P) + p.c[i]]

\* nn.ReLU()
ReLU(z) == IF z > 0 THEN z ELSE 0

\* nn.Dropout(p) of a module in training mode (the mode of a constructed
\* module), p in tenths: an element is zeroed, or kept and scaled by
\* 1 / (1 - p).
Dropout(z, keep, pTenths) ==
    IF keep THEN Frac(10 * z, 10 - pTenths) ELSE Frac(0, 10 - pTenths)

\* float32 sigmoid of k/9 for k = 0, 1, ..., in units of 2^-24, computed as
\* 1 / (1 + exp(-x)) with every operation rounded to float32. From
\* k/9 >= 16.67 on, 1 + exp(-x) rounds to 1 and the result is exactly 1.0.
SigmoidTable ==
    <<
       8388608, 8854163, 9316859, 9773906, 10222652, 10660639,
       11085652, 11495765, 11889356, 12265128, 12622107, 12959634,
       13277346, 13575150, 13853194, 14111834, 14351605, 14573173,
       14777322, 14964916, 15136864, 15294115, 15437626, 15568348,
       15687215, 15795129, 15892964, 15981542, 16061648, 16134012,
       16199322, 16258214, 16311276, 16359053, 16402044, 16440706,
       16475457, 16506678, 16534718, 16559888, 16582477, 16602743,
       16620920, 16637220, 16651832, 16664929, 16676666, 16687184,
       16696605, 16705046, 16712606, 16719378, 16725440, 16730870,
       16735733, 16740084, 16743982, 16747471, 16750594, 16753390,
       16755891, 16758132, 16760137, 16761932, 16763537, 16764975,
       16766261, 16767412, 16768443, 16769366, 16770191, 16770928,
       16771590, 16772182, 16772711, 16773185, 16773609, 16773987,
       16774326, 16774630, 16774902, 16775146, 16775364, 16775558,
       16775732, 16775888, 16776028, 16776152, 16776264, 16776364,
       16776454, 16776534, 16776606, 16776670, 16776728, 16776778,
       16776824, 16776866, 16776902, 16776936, 16776966, 16776992,
       16777016, 16777036, 16777056, 16777072, 16777088, 16777100,
       16777112, 16777124, 16777134, 16777142, 16777150, 16777156,
       16777164, 16777168, 16777174, 16777178, 16777182, 16777186,
       16777188, 16777192, 16777194, 16777196, 16777198, 16777200,
       16777202, 16777204, 16777204, 16777206, 16777208, 16777208,
       16777208, 16777210, 16777210, 16777210, 16777212, 16777212,
       16777212, 16777212, 16777214, 16777214, 16777214, 16777214,
       16777214, 16777214, 16777214, 16777214, 16777214, 16777214,
       16777216
    >>

\* 2^24: the float32 values of [0.5, 1] are multiples of 2^-24.
SigmoidDen == 16777216

\* nn.Sigmoid() of a non-negative fraction whose value is a multiple of 1/9.
Sigmoid(r) ==
    LET k == (r.num * 9) \div r.den
    IN Frac(IF k + 1 > Len(SigmoidTable) THEN SigmoidDen ELSE SigmoidTable[k + 1],
            SigmoidDen)

MapElement_NoReLU(z, keep, c) ==
    IF c.experiment = "return"
    THEN Dropout(z, keep, c.dropout)
    ELSE Sigmoid(Dropout(ReLU(z), keep, c.dropout))

MapElement_NoSigmoid(z, keep, c) ==
    Dropout(ReLU(z), keep, c.dropout)

\* self.map on one element of the Linear's output: Linear, ReLU, Dropout
\* and, for an experiment other than 'return', Sigmoid.
MapElement(z, keep, c) ==
    IF c.experiment = "return"
    THEN Dropout(ReLU(z), keep, c.dropout)
    ELSE Sigmoid(Dropout(ReLU(z), keep, c.dropout))

\* The values forward returns: stream[b][i] is the decoder's residual
\* stream at batch row b, position i, before Decoder.norm.
ForwardValues(stream, keep, B, c, p) ==
    [b \in 1..B |->
        LET dec == [i \in 1..c.pred_window |->
                       LayerNormOneFeature(stream[b][i], p.normWeight, p.normBias)]
            z == MapLinear(dec, p, c.pred_window)
        IN [i \in 1..c.pred_window |-> MapElement(z[i], keep[b][i], c)]]

\* ------------------------------------------------------------ the state
EmptyMatrix == [rows |-> 0, cols |-> 0, at |-> <<>>]

NoAttnCall == [b |-> 0, s_q |-> 0, s_k |-> 0, h |-> 0, d |-> 0, mask |-> None]

\* attnOut before the call returns.
Pending == [ok |-> FALSE, shape |-> <<>>, at |-> <<"pending">>, layer |-> -1]

NoPe == [window |-> 0, d_model |-> 0]

NoPeResult == [t |-> Ok(<<>>), rows |-> <<>>]

NoCfg == [experiment |-> "", d_model_e |-> 0, d_model_d |-> 0, N |-> 0, heads |-> 0,
          first_mask |-> EmptyMatrix, dropout |-> 0, context_window |-> 0,
          pred_window |-> 0, pe_window |-> 0]

NoParams == [normWeight |-> 0, normBias |-> 0, W |-> <<>>, c |-> <<>>]

NoCall == [called |-> FALSE, x |-> "", B |-> 0, keep |-> <<>>,
           out |-> Ok(<<>>), values |-> <<>>]

Init ==
    /\ maskArgs = <<0, 0>>
    /\ maskOut = EmptyMatrix
    /\ scoresIn = EmptyMatrix
    /\ scoresOut = EmptyMatrix
    /\ attnIn = NoAttnCall
    /\ attnOut = Pending
    /\ peMod = NoPe
    /\ peIn = <<>>
    /\ peOut = NoPeResult
    /\ pc = "new"
    /\ cfg = NoCfg
    /\ params = NoParams
    /\ prev = NoCall
    /\ last = NoCall

\* ---------------------------------------------------------- the actions
\* mask = create_mask(x, y) with the arguments drawn at the start.
CallCreateMask ==
    /\ maskArgs # <<0, 0>>
    /\ maskOut = EmptyMatrix
    /\ maskOut' = create_mask(maskArgs[1], maskArgs[2])
    /\ UNCHANGED <<maskArgs, scoresIn, scoresOut, attnVars, peVars, modelVars>>

\* The masking step of scaled_dot_product_attention with the mask of the
\* create_mask call, on one [s_q, s_k] slice of scores = q k^T for queries
\* q[i] and keys k[j] = j + 1 of one feature.
CallMaskedFill(q) ==
    /\ maskOut # EmptyMatrix
    /\ scoresOut = EmptyMatrix
    /\ LET scores == [rows |-> maskOut.rows, cols |-> maskOut.cols,
                      at |-> [i \in 0..(maskOut.rows - 1) |->
                                 [j \in 0..(maskOut.cols - 1) |-> q[i] * (j + 1)]]]
       IN /\ scoresIn' = scores
          /\ scoresOut' = MaskedFillValues(scores, maskOut)
    /\ UNCHANGED <<maskArgs, maskOut, attnVars, peVars, modelVars>>

\* scaled_dot_product_attention(k, q, v, mask) on k and v of shape
\* [b, s_k, h, d] and q of shape [b, s_q, h, d], drawn at the start.
CallAttention ==
    /\ attnIn # NoAttnCall
    /\ attnOut = Pending
    /\ attnOut' = scaled_dot_product_attention(
                      Ok(<<attnIn.b, attnIn.s_k, attnIn.h, attnIn.d>>),
                      Ok(<<attnIn.b, attnIn.s_q, attnIn.h, attnIn.d>>),
                      Ok(<<attnIn.b, attnIn.s_k, attnIn.h, attnIn.d>>), attnIn.mask)
    /\ UNCHANGED <<attnIn, maskVars, peVars, modelVars>>

\* PositionalEncoding(window, d_model)
ConstructPE(window, d_model) ==
    /\ peMod = NoPe
    /\ peMod' = [window |-> window, d_model |-> d_model]
    /\ UNCHANGED <<peIn, peOut, maskVars, attnVars, modelVars>>

\* PositionalEncoding.forward(x) on x of shape [B, L, d_model]
ForwardPE(B, L) ==
    /\ peMod # NoPe
    /\ LET t == PositionalEncoding(Ok(<<B, L, peMod.d_model>>), peMod.window, peMod.d_model)
       IN /\ peIn' = <<B, L, peMod.d_model>>
          /\ peOut' = [t |-> t,
                       rows |-> IF t.ok
                                THEN [l \in 0..(L - 1) |-> PeRowAt(peMod.window, L, l)]
                                ELSE <<>>]
    /\ UNCHANGED <<peMod, maskVars, attnVars, modelVars>>

\* Ml4fTransformer(experiment, d_model_e, ...): the constructor checks none
\* of its arguments against each other.
Construct(c, p) ==
    /\ pc = "new"
    /\ pc' = "built"
    /\ cfg' = c
    /\ params' = p
    /\ UNCHANGED <<prev, last, maskVars, attnVars, peVars>>

\* model(x, y) on x of shape [B, context_window, d_model_e] and y of shape
\* [B, pred_window, d_model_d], the contents of x and y named by an element
\* of inps. keep is the draw of the map block's Dropout and stream the
\* decoder's residual stream before its final norm (a function of x, y, the
\* parameters and the draws of the other Dropout modules).
Forward(B, inps, draws, streams) ==
    /\ pc = "built"
    /\ \E out \in {Ml4fTransformer(Ok(<<B, cfg.context_window, cfg.d_model_e>>),
                                    Ok(<<B, cfg.pred_window, cfg.d_model_d>>), cfg)} :
          \E inp \in inps, keep \in draws, stream \in streams :
              last' = [called |-> TRUE, x |-> inp, B |-> B,
                       keep |-> IF out.ok THEN keep ELSE <<>>,
                       out |-> out,
                       values |-> IF out.ok
                                  THEN ForwardValues(stream, keep, B, cfg, params)
                                  ELSE <<>>]
    /\ prev' = last
    /\ UNCHANGED <<pc, cfg, params, maskVars, attnVars, peVars>>

\* ----------------------------------------------------- the input domains
Experiments == {"return", "other"}

\* Contents of (x, y) that a caller may pass twice.
Inputs == {"a", "b"}

\* Values of the decoder's residual stream, of the final norm's bias, of
\* the map block's weights and of its bias: any finite numbers (a model's
\* parameters are whatever initialisation, training or loading left).
StreamVals == {0, 1}
NormBiasVals == {0, 1}
WeightVals == {0, 1}
BiasVals == {-1, 1, 17}

ConfigOf(e, de, dd, n, h, mx, my, drop, cw, pw, pe) ==
    [experiment |-> e, d_model_e |-> de, d_model_d |-> dd, N |-> n, heads |-> h,
     first_mask |-> create_mask(mx, my), dropout |-> drop, context_window |-> cw,
     pred_window |-> pw, pe_window |-> pe]

\* Constructor arguments under which forward returns: one decoder feature,
\* the mask of the prediction window; dropout 0 or 0.1.
ValueConfigs ==
    {ConfigOf(e, 1, 1, 1, 1, pw, pw, drop, 1, pw, pw) :
        e \in Experiments, pw \in 1..MaxPredValues, drop \in {0, 1}}

ParamsOf(P, nb, w, cc) ==
    [normWeight |-> 1, normBias |-> nb,
     W |-> [i \in 1..P |-> [j \in 1..P |-> w]], c |-> cc]

ParamSets(P) ==
    {ParamsOf(P, nb, w, [i \in 1..P |-> IF i = 1 THEN c1 ELSE 1]) :
        nb \in NormBiasVals, w \in WeightVals, c1 \in BiasVals}

\* Parameters of a model whose values are not looked at.
DefaultParams(P) == ParamsOf(P, 0, 1, [i \in 1..P |-> 1])

AllKept(B, P) == [b \in 1..B |-> [i \in 1..P |-> TRUE]]

\* The draws of Dropout(p): with p = 0 every element is kept.
KeepDraws(B, P, pTenths) ==
    IF pTenths = 0 THEN {AllKept(B, P)} ELSE [1..B -> [1..P -> BOOLEAN]]

ConstStream(B, P, u) == [b \in 1..B |-> [i \in 1..P |-> u]]

\* ---------------------------------------------------- the specifications
\* create_mask and the masking step on every pair of arguments.
InitMask ==
    /\ maskArgs \in (1..MaxMaskDim) \X (1..MaxMaskDim)
    /\ maskOut = EmptyMatrix
    /\ scoresIn = EmptyMatrix
    /\ scoresOut = EmptyMatrix
    /\ attnIn = NoAttnCall
    /\ attnOut = Pending
    /\ peMod = NoPe
    /\ peIn = <<>>
    /\ peOut = NoPeResult
    /\ pc = "new"
    /\ cfg = NoCfg
    /\ params = NoParams
    /\ prev = NoCall
    /\ last = NoCall

NextMask ==
    \/ CallCreateMask
    \/ \E q \in [0..(maskOut.rows - 1) -> {-1, 1}] : CallMaskedFill(q)

SpecMask == InitMask /\ [][NextMask]_vars

\* scaled_dot_product_attention on every shape of the claim, without a mask
\* and with a mask of shape [1, s_q, s_k].
AttnCalls ==
    {[b |-> t[1], s_q |-> t[2], s_k |-> t[3], h |-> t[4], d |-> t[5],
      mask |-> IF t[6] THEN <<1, t[2], t[3]>> ELSE None] :
        t \in (1..MaxBatch) \X (1..MaxSeq) \X (1..MaxSeq) \X (1..MaxHeads)
              \X (1..MaxHeadDim) \X BOOLEAN}

InitAttn ==
    /\ maskArgs = <<0, 0>>
    /\ maskOut = EmptyMatrix
    /\ scoresIn = EmptyMatrix
    /\ scoresOut = EmptyMatrix
    /\ attnIn \in AttnCalls
    /\ attnOut = Pending
    /\ peMod = NoPe
    /\ peIn = <<>>
    /\ peOut = NoPeResult
    /\ pc = "new"
    /\ cfg = NoCfg
    /\ params = NoParams
    /\ prev = NoCall
    /\ last = NoCall

NextAttn == CallAttention

SpecAttn == InitAttn /\ [][NextAttn]_vars

NextPE ==
    \/ \E w \in 1..MaxPeWindow, d \in 1..MaxPeDim : ConstructPE(w, d)
    \/ \E B \in 1..MaxBatch, L \in 1..(MaxPeWindow + 1) : ForwardPE(B, L)

SpecPE == Init /\ [][NextPE]_vars

\* The model under every constructor argument with a positional-encoding
\* table as long as the longest window (pe_window = MaxWindow), any mask
\* create_mask can build and dropout = 0.1: the shapes of forward.
Next ==
    \/ /\ pc = "new"
       /\ \E e \in Experiments, de \in 1..MaxModelDim, dd \in 1..MaxModelDim,
             n \in 1..MaxLayers, h \in 1..MaxHeads, mx \in 1..MaxWindow,
             my \in 1..MaxWindow, cw \in 1..MaxWindow, pw \in 1..MaxWindow :
             Construct(ConfigOf(e, de, dd, n, h, mx, my, 1, cw, pw, MaxWindow),
                       DefaultParams(pw))
    \/ \E B \in 1..MaxBatch :
          Forward(B, {"a"}, {AllKept(B, cfg.pred_window)},
                  {ConstStream(B, cfg.pred_window, 0)})

Spec == Init /\ [][Next]_vars

\* The model under the constructor arguments of ValueConfigs and every
\* parameter of ParamSets: the values of forward, call after call.
NextValues ==
    \/ /\ pc = "new"
       /\ \E c \in ValueConfigs : \E p \in ParamSets(c.pred_window) : Construct(c, p)
    \/ Forward(1, Inputs, KeepDraws(1, cfg.pred_window, cfg.dropout),
               {ConstStream(1, cfg.pred_window, u) : u \in StreamVals})

SpecValues == Init /\ [][NextValues]_vars

\* ------------------------------------------------------------ the claims
MaskCalled == maskOut # EmptyMatrix

\* C2: the mask create_mask(P, P) returns has entry [0, i, j] non-zero
\* exactly when j <= i: row i permits keys 0..i and forbids keys i+1..P-1.
C2_CausalMask ==
    (MaskCalled /\ maskArgs[1] = maskArgs[2]) =>
        /\ maskOut.rows = maskArgs[1]
        /\ maskOut.cols = maskArgs[1]
        /\ \A i \in 0..(maskArgs[1] - 1) : \A j \in 0..(maskArgs[1] - 1) :
               (maskOut.at[i][j] # 0) <=> (j <= i)

C2_Witness ==
    /\ MaskCalled
    /\ maskArgs[1] = maskArgs[2]
    /\ maskArgs[1] >= 3
    /\ maskOut.at[1][2] = 0
    /\ maskOut.at[2][1] # 0

\* C3 as stated: create_mask(pred_dim, context_dim) returns a tensor of
\* shape [1, pred_dim, pred_dim] whatever context_dim is.
C3_Original ==
    MaskCalled => MaskShape(maskOut) = <<1, maskArgs[1], maskArgs[1]>>

\* C3 as amended: create_mask(x, y) returns a tensor of shape [1, y, x].
C3_ShapeYX ==
    MaskCalled => MaskShape(maskOut) = <<1, maskArgs[2], maskArgs[1]>>

C3_Witness ==
    /\ MaskCalled
    /\ maskArgs[1] # maskArgs[2]
    /\ MaskShape(maskOut) = <<1, maskArgs[2], maskArgs[1]>>

\* C10: every row of the mask create_mask(x, y) returns has a non-zero
\* entry, column 0, so after masked_fill no query position has every key
\* replaced by -1e9 (its score against key 0 is the one it had).
C10_NoRowFullyMasked ==
    MaskCalled =>
        /\ \A i \in 0..(maskOut.rows - 1) : maskOut.at[i][0] # 0
        /\ scoresOut.rows > 0 =>
               \A i \in 0..(scoresOut.rows - 1) :
                   /\ \E j \in 0..(scoresOut.cols - 1) : scoresOut.at[i][j] # NegFill
                   /\ scoresOut.at[i][0] = scoresIn.at[i][0]

C10_Witness ==
    /\ MaskCalled
    /\ maskArgs[1] # maskArgs[2]
    /\ scoresOut.rows > 0
    /\ \E i \in 0..(scoresOut.rows - 1) : \E j \in 0..(scoresOut.cols - 1) :
           scoresOut.at[i][j] = NegFill /\ scoresIn.at[i][j] # NegFill

\* C7: scaled_dot_product_attention on k, v of shape [b, s_k, h, d] and q of
\* shape [b, s_q, h, d], mask None or of shape [1, s_q, s_k], returns a
\* tensor of shape [b, s_q, h * d].
C7_OutputShape ==
    attnOut # Pending =>
        /\ attnOut.ok
        /\ attnOut.shape = <<attnIn.b, attnIn.s_q, attnIn.h * attnIn.d>>

C7_Witness ==
    /\ attnOut # Pending
    /\ attnIn.s_q # attnIn.s_k
    /\ attnIn.h > 1
    /\ attnIn.mask # None
    /\ attnOut.ok
    /\ attnOut.shape[2] = attnIn.s_q

\* C5 as stated: PositionalEncoding.forward on an input longer than the
\* table's window always fails.
C5_LongInputFails ==
    (peIn # <<>> /\ peIn[2] > peMod.window) => ~peOut.t.ok

\* C1 as stated: with the mask create_mask(pred_window, pred_window) and
\* pe_window >= max(context_window, pred_window), forward returns a tensor
\* of shape [B, pred_window] whatever d_model_e, d_model_d, heads and N are.
C1_ForwardShape ==
    (/\ last.called
     /\ cfg.first_mask.rows = cfg.pred_window
     /\ cfg.first_mask.cols = cfg.pred_window
     /\ cfg.pe_window >= Max(cfg.context_window, cfg.pred_window)) =>
        /\ last.out.ok
        /\ last.out.shape = <<last.B, cfg.pred_window>>

\* C4 as stated: with a mask whose dimensions differ from pred_window (and
\* every other shape valid), the first forward call fails inside attn_1 of
\* the first decoder layer.
C4_MismatchedMaskFails ==
    (/\ last.called
     /\ ~prev.called
     /\ cfg.d_model_d = 1
     /\ \/ cfg.first_mask.rows # cfg.pred_window
        \/ cfg.first_mask.cols # cfg.pred_window) =>
        /\ ~last.out.ok
        /\ last.out.layer = 0
        /\ Len(last.out.at) >= 2
        /\ last.out.at[1] = "decoder"
        /\ last.out.at[2] = "attn_1"

AllValues(call) ==
    {call.values[b][i] : b \in 1..call.B, i \in 1..cfg.pred_window}

C8_Original ==
    (last.called /\ last.out.ok /\ cfg.experiment # "return") =>
        \A v \in AllValues(last) : 0 < v.num /\ v.num < v.den

\* C8 as amended: with an experiment other than 'return', every element
\* forward returns lies in the closed interval [1/2, 1] (1.0 itself is
\* returned once the float32 sigmoid saturates), and it is exactly 1/2 where
\* Dropout zeroed the element.
C8_HalfToOne ==
    (last.called /\ last.out.ok /\ cfg.experiment # "return") =>
        \A b \in 1..last.B : \A i \in 1..cfg.pred_window :
            LET v == last.values[b][i]
            IN /\ v.den > 0
               /\ v.den <= 2 * v.num
               /\ v.num <= v.den
               /\ ~last.keep[b][i] => 2 * v.num = v.den

C8_Witness ==
    /\ last.called /\ last.out.ok
    /\ cfg.experiment # "return"
    /\ cfg.pred_window >= 2
    /\ \E v \in AllValues(last) : v.num = v.den
    /\ \E v \in AllValues(last) : 2 * v.num > v.den /\ v.num < v.den

\* C9: with experiment 'return', every element forward returns is >= 0,
\* whatever the parameters and the Dropout draws are.
C9_NonNegative ==
    (last.called /\ last.out.ok /\ cfg.experiment = "return") =>
        \A v \in AllValues(last) : v.den > 0 /\ v.num >= 0

C9_Witness ==
    /\ last.called /\ last.out.ok
    /\ cfg.experiment = "return"
    /\ params.c[1] < 0
    /\ params.normBias = 0
    /\ last.keep[1][1]
    /\ last.values[1][1].num = 0
    /\ \E v \in AllValues(last) : v.num > 0

====
